---- MODULE Spec2Model ----
(***************************************************************************)
(* A model of leprechaun's candlestick chart (charts.go): chart            *)
(* construction, index-based navigation, trend scoring, pattern recording  *)
(* and the trailing-window pattern scan; of its line chart; of the ledger's *)
(* bounded entry stack (ledger.go); and of the session's shutdown           *)
(* handshake (session.go).                                                  *)
(*                                                                         *)
(* Prices are fixed-point integers: the integer p stands for the float64   *)
(* price p / Scale.  Go slices are 0-based, TLA+ sequences 1-based: the    *)
(* Go element s[i] is the TLA+ element s[i + 1].  A Go run-time panic      *)
(* (index or slice bounds out of range) is the status "panic"; no code of  *)
(* the package recovers from it, so it ends the program.                   *)
(***************************************************************************)
EXTENDS Integers, Sequences, FiniteSets

VARIABLES
    input,      \* the batch handed to NewCandleChart
    cht,        \* the caller's CandleChart value
    op,         \* the last call made on cht: its name and arguments
    status,     \* how that call ended: "none", "ok", "ErrLastCandle", "panic"
    out,        \* what that call returned
    callee,     \* the pattern lists of the callee's receiver copy when it ended
    submitted,  \* the AddBearishPattern/AddBullishPattern calls the last scan made
    prices,     \* the price list handed to doOHLC
    line,       \* the caller's LineChart value
    st,         \* the EntryStack appendRecord works on (through a pointer)
    appends,    \* how many appendRecord calls have been made: the next entry's serial
    session,    \* the Session NewSession returned
    pc          \* where each goroutine of the session stands

vars == <<input, cht, op, status, out, callee, submitted, prices,
          line, st, appends, session, pc>>

----------------------------------------------------------------------------
(* Bounds *)

\* Longest candle batch a chart is built from.
MaxCandles == 5
\* Largest num passed to nextCandles / previousCandles.
MaxNum == 3
\* Fixed-point resolution: integer units per 1.0 of price.
Scale == 2
\* Largest price (in 1/Scale units) of a price list.
MaxPrice == 4
\* Longest price list handed to doOHLC.
MaxPrices == 3
\* Most candles a long chart holds before its trailing window.
MaxOlder == 1
\* Most appendRecord calls made on one stack.
MaxAppends == 130
\* Most goroutines that call Session.Stop.
MaxStops == 3

----------------------------------------------------------------------------
(* ChartTrend, charts.go 268-278 *)

Bullish == "Bullish"
Bearish == "Bearish"
Indifferent == "Indifferent"

\* ErrLastCandle, charts.go 389-392
ErrLastCandle == "ErrLastCandle"

\* The zero value OHLC{} (only the fields the chart code reads are kept).
ZeroOHLC ==
    [Open |-> 0, High |-> 0, Low |-> 0, Close |-> 0, Range |-> 0, Trend |-> "", ID |-> 0]

\* An OHLC value with the given prices (in 1/Scale units), trend and ID.
OHLC(o, h, l, c, t, id) ==
    [Open |-> o, High |-> h, Low |-> l, Close |-> c, Range |-> c - o, Trend |-> t, ID |-> id]

IsBullish(candle) == candle.Trend = Bullish

IsBearish(candle) == candle.Trend = Bearish

\* math.Floor(Open) == math.Floor(Close); \div rounds toward minus infinity.
\* A doji test that asks for open = close exactly.
IsDojiExact(candle) == candle.Open = candle.Close

IsDoji(candle) == (candle.Open \div Scale) = (candle.Close \div Scale)

\* A containment test that also accepts equal highs or lows.
EngulfsOrTouches(candle, candleTwo) ==
    candle.High >= candleTwo.High /\ candle.Low <= candleTwo.Low

Engulfs(candle, candleTwo) ==
    candle.High > candleTwo.High /\ candle.Low < candleTwo.Low

\* No candle of the slice is bullish.
AllBearish(candles) == \A i \in 1..Len(candles) : ~IsBullish(candles[i])

\* No candle of the slice is bearish.
AllBullish(candles) == \A i \in 1..Len(candles) : ~IsBearish(candles[i])

RECURSIVE MinFrom(_, _, _)
MinFrom(a, i, min) ==
    IF i > Len(a) THEN min
    ELSE MinFrom(a, i + 1, IF a[i] < min THEN a[i] ELSE min)

\* A minimum search that starts from 0 instead of the first value.
Min64FromZero(a) == IF Len(a) = 0 THEN 0 ELSE MinFrom(a, 1, 0)

Min64(a) == IF Len(a) = 0 THEN 0 ELSE MinFrom(a, 1, a[1])

RECURSIVE MaxFrom(_, _, _)
MaxFrom(a, i, max) ==
    IF i > Len(a) THEN max
    ELSE MaxFrom(a, i + 1, IF a[i] > max THEN a[i] ELSE max)

Max64(a) == IF Len(a) = 0 THEN 0 ELSE MaxFrom(a, 1, a[1])

----------------------------------------------------------------------------
(* Candle construction, charts.go 176-202 *)

\* (candle.Range * 100) / candle.Open in float64: the quotient as a fraction, and
\* the IEEE value of a division by zero (no panic).
PercentChange(range, open) ==
    IF open = 0
    THEN (IF range > 0 THEN "+Inf" ELSE IF range < 0 THEN "-Inf" ELSE "NaN")
    ELSE [num |-> range * 100, den |-> open]

\* A classification by the sign of the move.
IsNegativeMoveBySign(range) == range < 0

\* candle.Range < 1.0
IsNegativeMove(range) == range < Scale

\* doOHLC(startTime, prices, volume): [status, candle]. prices[len(prices)-1] on an
\* empty list is an index-out-of-range panic. startTime and volume only fill Time
\* and TotalVolume.
doOHLC(priceList) ==
    IF Len(priceList) = 0
    THEN [status |-> "panic", candle |-> ZeroOHLC]
    ELSE LET close == priceList[Len(priceList)]
             open  == priceList[1]
             high  == Max64(priceList)
             low   == Min64(priceList)
             range == close - open
             trend == IF IsNegativeMove(range) THEN Bearish ELSE Bullish
         IN  [status |-> "ok",
              candle |->
                 [Open |-> open, High |-> high, Low |-> low, Close |-> close,
                  Range |-> range, percentChange |-> PercentChange(range, open),
                  Trend |-> trend,
                  UpperTail |-> IF trend = Bullish THEN high - close ELSE high - open,
                  LowerTail |-> IF trend = Bullish THEN open - low ELSE close - low,
                  ID |-> 0]]

----------------------------------------------------------------------------
(* CandleChart, charts.go 406-434 *)

\* MaxPatternCandles as NewCandleChart sets it.
DefaultMaxPatternCandles == 5

\* A chart whose candles keep the IDs they came with.
KeepID(candle, i) == candle

\* The loop body of NewCandleChart: the ID the i-th (0-based) candle gets.
AssignID(candle, i) == [candle EXCEPT !.ID = i]

NewCandleChart(candles) ==
    [Candles           |-> [k \in 1..Len(candles) |-> AssignID(candles[k], k - 1)],
     MaxPatternCandles |-> DefaultMaxPatternCandles,
     BearishPatterns   |-> <<>>,
     BullishPatterns   |-> <<>>]

\* len(cht.Candles)
Length(c) == Len(c.Candles)

\* cht.Candles[i] is evaluated without an index-out-of-range panic.
InRange(c, i) == i >= 0 /\ i < Length(c)

\* cht.Candles[i], Go's 0-based indexing.
At(c, i) == c.Candles[i + 1]

----------------------------------------------------------------------------
(* Navigation, charts.go 436-468.  Each returns [status, candle] or        *)
(* [status, candles]; status "panic" is an index-out-of-range panic.       *)

\* The guard of nextCandle and nextCandles: when it holds they return ErrLastCandle.
NextGuard(c, current) == Length(c) >= current.ID + 1

nextCandle(c, current) ==
    IF NextGuard(c, current)
    THEN [status |-> ErrLastCandle, candle |-> ZeroOHLC]
    ELSE IF InRange(c, current.ID + 1)
         THEN [status |-> "ok", candle |-> At(c, current.ID + 1)]
         ELSE [status |-> "panic", candle |-> ZeroOHLC]

\* for i := 1; i == num; i++ : the body runs once, with i = 1, when num = 1,
\* and never otherwise.
nextCandles(c, num, current) ==
    IF NextGuard(c, current)
    THEN [status |-> ErrLastCandle, candles |-> <<>>]
    ELSE IF num # 1
         THEN [status |-> "ok", candles |-> <<>>]
         ELSE IF InRange(c, current.ID + 1)
              THEN [status |-> "ok", candles |-> <<At(c, current.ID + 1)>>]
              ELSE [status |-> "panic", candles |-> <<>>]

\* A guard that also turns the second candle away.
PreviousGuardLoose(current) == current.ID <= 1

\* The guard of previousCandle and previousCandles.
PreviousGuard(current) == current.ID = 0

\* The index previousCandle reads.
PreviousIndex(current) == current.ID - 1

previousCandle(c, current) ==
    IF PreviousGuard(current)
    THEN [status |-> ErrLastCandle, candle |-> ZeroOHLC]
    ELSE IF InRange(c, PreviousIndex(current))
         THEN [status |-> "ok", candle |-> At(c, PreviousIndex(current))]
         ELSE [status |-> "panic", candle |-> ZeroOHLC]

\* for i := 1; i <= num; i++ { append(candles, cht.Candles[current.ID-i]) }
previousCandles(c, num, current) ==
    IF PreviousGuard(current)
    THEN [status |-> ErrLastCandle, candles |-> <<>>]
    ELSE IF \E i \in 1..num : ~InRange(c, current.ID - i)
         THEN [status |-> "panic", candles |-> <<>>]
         ELSE [status |-> "ok", candles |-> [i \in 1..num |-> At(c, current.ID - i)]]

----------------------------------------------------------------------------
(* Trend scoring and pattern recording, charts.go 470-508 *)

RECURSIVE CountTrend(_, _)
CountTrend(candles, t) ==
    IF Len(candles) = 0 THEN 0
    ELSE (IF Head(candles).Trend = t THEN 1 ELSE 0) + CountTrend(Tail(candles), t)

\* A scorer that gives ties to the bulls.
DetectTrendTieBullish(candles) ==
    IF CountTrend(candles, Bullish) >= CountTrend(candles, Bearish) THEN Bullish
    ELSE Bearish

DetectTrend(candles) ==
    LET bullishScore == CountTrend(candles, Bullish)
        bearishScore == CountTrend(candles, Bearish)
    IN  IF bullishScore > bearishScore THEN Bullish
        ELSE IF bearishScore > bullishScore THEN Bearish
        ELSE Indifferent

\* The lists of a chart value.
\* The indices of the candles Add...Pattern reads for a record's PreceedingTrend:
\* previousCandles(3, earliestCandle) reads cht.Candles[ID-1], [ID-2], [ID-3] unless
\* ID = 0; a negative index is no candle (the read panics).
PrecedingReads(id) == IF id = 0 THEN {} ELSE {k \in {id - 1, id - 2, id - 3} : k >= 0}

Lists(c) == [BearishPatterns |-> c.BearishPatterns, BullishPatterns |-> c.BullishPatterns]

\* What one AddBearishPattern ("Bearish") or AddBullishPattern ("Bullish") call does
\* to its receiver copy c: [status, lists], lists being the copy's lists at the end.
AddPattern(c, dir, earliestCandle, pattern) ==
    LET prev == previousCandles(c, 3, earliestCandle)
        rec  == [Pattern |-> pattern, PreceedingTrend |-> DetectTrend(prev.candles)]
    IN  IF prev.status = "panic" THEN [status |-> "panic", lists |-> Lists(c)]
        ELSE IF prev.status = ErrLastCandle THEN [status |-> "ok", lists |-> Lists(c)]
        ELSE [status |-> "ok",
              lists  |-> IF dir = Bearish
                         THEN [Lists(c) EXCEPT !.BearishPatterns = Append(@, rec)]
                         ELSE [Lists(c) EXCEPT !.BullishPatterns = Append(@, rec)]]

\* A call that takes the newest candle off the caller's chart.
AfterCallPop(c, calleeLists) ==
    [c EXCEPT !.Candles = SubSeq(@, 1, Len(@) - 1)]

\* The receiver of every method is a CandleChart value: the method works on a copy,
\* and the caller's chart is what it was before the call.
AfterCall(c, calleeLists) == c

----------------------------------------------------------------------------
(* The pattern scan, charts.go 510-710.                                    *)
(*                                                                         *)
(* The scan is a fixed sequence of rule blocks. Each block yields, in      *)
(* program order, the Add...Pattern calls it makes; a block whose own      *)
(* look-back panics yields PanicEv. No block changes what a later block    *)
(* reads (every receiver is a copy), so the scan is the concatenation of   *)
(* its blocks, cut at the first panic.                                     *)

PanicEv == [panic |-> TRUE, dir |-> "", anchor |-> ZeroOHLC, pattern |-> ""]

AddEv(dir, anchor, pattern) ==
    [panic |-> FALSE, dir |-> dir, anchor |-> anchor, pattern |-> pattern]

When(cond, events) == IF cond THEN events ELSE <<>>

\* if x, err := lookup; err != ErrLastCandle { body }: the events of the body
\* when the look-back r found its candles.
IfFound(r, events) ==
    IF r.status = "panic" THEN <<PanicEv>>
    ELSE IF r.status = ErrLastCandle THEN <<>>
    ELSE events

\* candle.High of each candle, in order
Highs(candles) == [i \in 1..Len(candles) |-> candles[i].High]

\* candle.Low of each candle, in order
Lows(candles) == [i \in 1..Len(candles) |-> candles[i].Low]

\* previousCandle.Range <= lastCandle.Range / 2, exactly
HalfRange(small, large) == 2 * small.Range <= large.Range

\* lines 518-560
BearishReversals(c, L) ==
    LET star(P, T) ==
            When(IsBullish(T),
                 IF IsDoji(P)
                 THEN When(P.Low > T.Close /\ L.Open < P.Close /\ L.Close > T.Open,
                           <<AddEv(Bearish, T, "EveningDojiStar")>>)
                 ELSE When(HalfRange(P, L) /\ P.Open > T.Open
                             /\ L.Open > P.Close /\ L.Close > T.Open,
                           <<AddEv(Bearish, T, "BearishEveningStar")>>))
        body(p) ==
            LET P == p.candle
                third(t) == star(P, t.candle)
            IN  When(IsBullish(P),
                     When(Engulfs(L, P), <<AddEv(Bearish, P, "BearishEngulfingPattern")>>)
                     \o When(Engulfs(P, L), <<AddEv(Bearish, P, "BearishHarami")>>)
                     \o When(L.Open > P.Close /\ L.High > L.Open /\ L.Close < P.Low,
                             <<AddEv(Bearish, P, "BearishKeyReversal")>>))
                \o (LET t == previousCandle(c, P) IN IfFound(t, third(t)))
    IN  LET p == previousCandle(c, L) IN IfFound(p, body(p))

\* lines 561-579
BearishFallingThreeRule(c, L) ==
    LET body(r) ==
            LET trio == r.candles
                anchor(f) ==
                    When(IsBearish(f.candle) /\ Max64(Highs(trio)) < f.candle.High,
                         <<AddEv(Bearish, f.candle, "BearishFallingThree")>>)
            IN  IF AllBullish(trio)
                THEN LET f == previousCandle(c, trio[Len(trio)]) IN IfFound(f, anchor(f))
                ELSE <<>>
    IN  LET r == previousCandles(c, 3, L) IN IfFound(r, body(r))

\* lines 580-596
BearishFallingTwoRule(c, L) ==
    LET body(r) ==
            LET duo == r.candles
                anchor(f) ==
                    When(IsBearish(f.candle) /\ Max64(Highs(duo)) < f.candle.High,
                         <<AddEv(Bearish, f.candle, "BearishFallingTwo")>>)
            IN  IF AllBullish(duo)
                THEN LET f == previousCandle(c, duo[2]) IN IfFound(f, anchor(f))
                ELSE <<>>
    IN  LET r == previousCandles(c, 2, L) IN IfFound(r, body(r))

\* lines 598-603
BearishGenericRule(c, L) ==
    LET body(r) ==
            When(AllBearish(r.candles), <<AddEv(Bearish, L, "BearishGenericPattern")>>)
    IN  LET r == previousCandles(c, 3, L) IN IfFound(r, body(r))

\* lines 606-650
BullishReversals(c, L) ==
    LET star(P, T) ==
            When(IsBearish(T),
                 IF IsDoji(P)
                 THEN When(P.High < T.Close /\ L.Open > P.Close /\ L.Close < T.Open,
                           <<AddEv(Bearish, T, "EveningDojiStar")>>)
                 ELSE When(HalfRange(P, L) /\ P.Close < T.Close
                             /\ L.Open > P.Close /\ L.Close < T.Open,
                           <<AddEv(Bullish, T, "BullishMorningStar")>>))
        body(p) ==
            LET P == p.candle
                third(t) == star(P, t.candle)
            IN  When(IsBearish(P),
                     When(Engulfs(L, P), <<AddEv(Bullish, P, "BullishEngulfingPattern")>>)
                     \o When(Engulfs(P, L), <<AddEv(Bullish, P, "BullishHarami")>>)
                     \o When(L.Open < P.Close /\ L.Low < L.Open /\ L.Close > P.High,
                             <<AddEv(Bullish, P, "BullishKeyReversal")>>))
                \o (LET t == previousCandle(c, P) IN IfFound(t, third(t)))
    IN  LET p == previousCandle(c, L) IN IfFound(p, body(p))

\* lines 651-668: lowestPrices collects candle.High
BullishRisingThreeRule(c, L) ==
    LET body(r) ==
            LET trio == r.candles
                anchor(f) ==
                    When(IsBullish(f.candle) /\ Min64(Highs(trio)) > f.candle.Low,
                         <<AddEv(Bullish, f.candle, "BullishRisingThree")>>)
            IN  IF AllBearish(trio)
                THEN LET f == previousCandle(c, trio[Len(trio)]) IN IfFound(f, anchor(f))
                ELSE <<>>
    IN  LET r == previousCandles(c, 3, L) IN IfFound(r, body(r))

\* lines 669-685: Max64 of the lows, recorded with AddBearishPattern
BullishRisingTwoRule(c, L) ==
    LET body(r) ==
            LET duo == r.candles
                anchor(f) ==
                    When(IsBullish(f.candle) /\ Max64(Lows(duo)) > f.candle.Low,
                         <<AddEv(Bearish, f.candle, "BearishFallingTwo")>>)
            IN  IF AllBearish(duo)
                THEN LET f == previousCandle(c, duo[2]) IN IfFound(f, anchor(f))
                ELSE <<>>
    IN  LET r == previousCandles(c, 2, L) IN IfFound(r, body(r))

\* lines 686-691
BullishGenericRule(c, L) ==
    LET body(r) ==
            When(AllBullish(r.candles), <<AddEv(Bullish, L, "BullishGenericPattern")>>)
    IN  LET r == previousCandles(c, 3, L) IN IfFound(r, body(r))

\* lines 694-708
DojiRules(c, L) ==
    LET contained(P) == L.High < P.High /\ L.Low > P.Low
        bull(p) == When(IsBearish(p.candle) /\ contained(p.candle),
                        <<AddEv(Bullish, p.candle, "BullishHaramiCross")>>)
        bear(p) == When(IsBullish(p.candle) /\ contained(p.candle),
                        <<AddEv(Bearish, p.candle, "BearishHaramiCross")>>)
    IN  When(IsDoji(L),
             LET p == previousCandle(c, L) IN IfFound(p, bull(p)) \o IfFound(p, bear(p)))

\* Everything the scan would do with last candle L, were nothing to panic.
ScanEvents(c, L) ==
    (IF IsBearish(L)
     THEN BearishReversals(c, L) \o BearishFallingThreeRule(c, L)
          \o BearishFallingTwoRule(c, L) \o BearishGenericRule(c, L)
     ELSE IF IsBullish(L)
     THEN BullishReversals(c, L) \o BullishRisingThreeRule(c, L)
          \o BullishRisingTwoRule(c, L) \o BullishGenericRule(c, L)
     ELSE <<>>)
    \o DojiRules(c, L)

\* One entry of the scan's log: an Add...Pattern call and how it ended.
Submission(ev, r, c) ==
    [dir     |-> ev.dir,
     pattern |-> ev.pattern,
     anchor  |-> ev.anchor.ID,
     result  |-> IF r.status = "panic" THEN "panic"
                 ELSE IF r.lists = Lists(c) THEN "dropped" ELSE "recorded",
     trend   |-> IF r.status = "panic" \/ r.lists = Lists(c) THEN ""
                 ELSE IF ev.dir = Bearish
                      THEN r.lists.BearishPatterns[Len(r.lists.BearishPatterns)].PreceedingTrend
                      ELSE r.lists.BullishPatterns[Len(r.lists.BullishPatterns)].PreceedingTrend]

\* Runs the events in order on the scan's receiver copy c, up to the first panic.
RECURSIVE RunScan(_, _, _)
RunScan(c, events, log) ==
    IF Len(events) = 0 THEN [status |-> "ok", submitted |-> log, lists |-> Lists(c)]
    ELSE LET ev == Head(events)
             r  == AddPattern(c, ev.dir, ev.anchor, ev.pattern)
         IN  IF ev.panic
             THEN [status |-> "panic", submitted |-> log, lists |-> Lists(c)]
             ELSE IF r.status = "panic"
             THEN [status |-> "panic", submitted |-> Append(log, Submission(ev, r, c)),
                   lists |-> Lists(c)]
             ELSE RunScan(AfterCall(c, r.lists), Tail(events), Append(log, Submission(ev, r, c)))

\* cht.Candles[len-MaxPatternCandles : len] and patternCandles[lastIdx] are evaluated
\* without a slice-bounds or index panic.
WindowOK(c) ==
    /\ Length(c) - c.MaxPatternCandles >= 0
    /\ Length(c) - c.MaxPatternCandles <= Length(c)
    /\ c.MaxPatternCandles - 1 >= 0

DetectPatterns(c) ==
    IF ~WindowOK(c)
    THEN [status |-> "panic", submitted |-> <<>>, lists |-> Lists(c)]
    ELSE LET lastIdx    == c.MaxPatternCandles - 1
             lastCandle == At(c, (Length(c) - c.MaxPatternCandles) + lastIdx)
         IN  RunScan(c, ScanEvents(c, lastCandle), <<>>)

----------------------------------------------------------------------------
(* LineChart, charts.go 111-156 *)

\* NewLineChart(prices): Trend is left at its zero value.
NewLineChart(p) == [Prices |-> p, Trend |-> ""]

\* The loop of LineChart.DetectTrend from 1-based position x on.
RECURSIVE ScoreFrom(_, _, _)
ScoreFrom(p, x, score) ==
    IF x >= Len(p) THEN score
    ELSE ScoreFrom(p, x + 1,
                   IF p[x] > p[x + 1] THEN score - 1
                   ELSE IF p[x] < p[x + 1] THEN score + 1
                   ELSE score)

\* LineChart.DetectTrend(): the receiver copy when the method ends.
LineDetectTrend(chart) ==
    LET score == ScoreFrom(chart.Prices, 1, 0)
    IN  [chart EXCEPT !.Trend = IF score > 0 THEN Bullish
                                ELSE IF score < 0 THEN Bearish
                                ELSE Indifferent]

\* The caller's line chart after a method with a value receiver has run on a copy.
AfterLineCall(chart, copy) == chart

----------------------------------------------------------------------------
(* EntryStack, ledger.go 277-297. An entry is identified by its serial:    *)
(* the number of the appendRecord call that brought it.                    *)

maxRecordsToSave == 100

\* A slice start that pops nothing.
FirstKeptAll(x) == x + 1

\* st.records[x+1 : lnt] starts at the Go index x + 1, the 1-based position x + 2.
FirstKept(x) == x + 2

\* (st *EntryStack) appendRecord(rec): the stack after the call.
appendRecord(stack, rec) ==
    LET lnt  == Len(stack.records)
        kept == IF lnt >= maxRecordsToSave
                THEN SubSeq(stack.records, FirstKept(lnt - maxRecordsToSave), lnt)
                ELSE stack.records
    IN  [stack EXCEPT !.records = Append(kept, rec)]

LedgerAtRest ==
    /\ st = [records |-> <<>>]
    /\ appends = 0

----------------------------------------------------------------------------
(* Session, session.go 17-98. A channel is "nil" (never made) or "open".   *)

\* The goroutines Start spawns, in the order of its go statements.
Workers == <<"analyzeMarkets", "Trade", "CloseLongPositions", "CloseShortPositions">>

\* NewSession(ctx): errChan and debugChan are made, done is not.
NewSession ==
    [done |-> "nil", errChan |-> "open", debugChan |-> "open",
     startTime |-> FALSE, elapsed |-> FALSE]

SessionAtRest ==
    /\ session = NewSession
    /\ pc = [start |-> "idle",
             stop |-> [i \in 1..MaxStops |-> "idle"],
             worker |-> [g \in 1..Len(Workers) |-> "unspawned"]]

----------------------------------------------------------------------------
(* The state machine: a chart is built from a batch, then its methods are  *)
(* called in any order with arguments taken from the chart.                *)

\* The candles batches are drawn from (prices in 1/Scale units), as a caller builds
\* them: ID left at its zero value.
BigBear == OHLC(8, 10, 1, 2, Bearish, 0)
SmallBull == OHLC(4, 6, 3, 6, Bullish, 0)
FlatDoji == OHLC(6, 7, 5, 7, Indifferent, 0)
SmallBear == OHLC(5, 5, 4, 4, Bearish, 0)

CandlePool == {BigBear, SmallBull, FlatDoji, SmallBear}

\* The IDs a batch carries into NewCandleChart: all zero (never set), or those of a
\* slice cut out of an older chart (position + 2).
IDSchemes == {"zero", "stale"}

CarriedID(scheme, i) == IF scheme = "zero" THEN 0 ELSE i + 2

Stamp(body, scheme) ==
    [k \in 1..Len(body) |-> [body[k] EXCEPT !.ID = CarriedID(scheme, k - 1)]]

Batches ==
    {Stamp(body, scheme) :
        body \in UNION {[1..n -> CandlePool] : n \in 0..MaxCandles},
        scheme \in IDSchemes}

\* The patterns direct Add...Pattern calls are made with.
AddKinds(dir) ==
    IF dir = Bearish THEN {"BearishEngulfingPattern", "BearishGenericPattern"}
    ELSE {"BullishEngulfingPattern", "BullishGenericPattern"}

NoOp == [name |-> "none", num |-> 0, current |-> 0, dir |-> "", pattern |-> ""]

NoOut == [candle |-> ZeroOHLC, candles |-> <<>>, trend |-> ""]

Init ==
    /\ input \in Batches
    /\ cht = NewCandleChart(input)
    /\ op = NoOp
    /\ status = "none"
    /\ out = NoOut
    /\ callee = Lists(cht)
    /\ submitted = <<>>
    /\ prices = <<>>
    /\ line = NewLineChart(<<>>)
    /\ LedgerAtRest
    /\ SessionAtRest

\* The package is synchronous and single-threaded: a call is made when no call is
\* under way, and a panic ends the program.
Running == status = "none"

CallNextCandle ==
    /\ Running
    /\ \E i \in 1..Length(cht) :
        LET r == nextCandle(cht, cht.Candles[i])
        IN  /\ op' = [NoOp EXCEPT !.name = "nextCandle", !.current = cht.Candles[i].ID]
            /\ status' = r.status
            /\ out' = [NoOut EXCEPT !.candle = r.candle]
    /\ cht' = AfterCall(cht, Lists(cht))
    /\ callee' = Lists(cht)
    /\ submitted' = <<>>
    /\ UNCHANGED <<input, prices, line, st, appends, session, pc>>

CallNextCandles ==
    /\ Running
    /\ \E i \in 1..Length(cht), num \in 1..MaxNum :
        LET r == nextCandles(cht, num, cht.Candles[i])
        IN  /\ op' = [NoOp EXCEPT !.name = "nextCandles", !.num = num,
                                  !.current = cht.Candles[i].ID]
            /\ status' = r.status
            /\ out' = [NoOut EXCEPT !.candles = r.candles]
    /\ cht' = AfterCall(cht, Lists(cht))
    /\ callee' = Lists(cht)
    /\ submitted' = <<>>
    /\ UNCHANGED <<input, prices, line, st, appends, session, pc>>

CallPreviousCandle ==
    /\ Running
    /\ \E i \in 1..Length(cht) :
        LET r == previousCandle(cht, cht.Candles[i])
        IN  /\ op' = [NoOp EXCEPT !.name = "previousCandle", !.current = cht.Candles[i].ID]
            /\ status' = r.status
            /\ out' = [NoOut EXCEPT !.candle = r.candle]
    /\ cht' = AfterCall(cht, Lists(cht))
    /\ callee' = Lists(cht)
    /\ submitted' = <<>>
    /\ UNCHANGED <<input, prices, line, st, appends, session, pc>>

CallPreviousCandles ==
    /\ Running
    /\ \E i \in 1..Length(cht), num \in 1..MaxNum :
        LET r == previousCandles(cht, num, cht.Candles[i])
        IN  /\ op' = [NoOp EXCEPT !.name = "previousCandles", !.num = num,
                                  !.current = cht.Candles[i].ID]
            /\ status' = r.status
            /\ out' = [NoOut EXCEPT !.candles = r.candles]
    /\ cht' = AfterCall(cht, Lists(cht))
    /\ callee' = Lists(cht)
    /\ submitted' = <<>>
    /\ UNCHANGED <<input, prices, line, st, appends, session, pc>>

\* DetectTrend on a run of consecutive candles of the chart (possibly empty):
\* the num candles from 0-based position current on.
CallDetectTrend ==
    /\ Running
    /\ \E from \in 0..Length(cht), num \in 0..MaxNum :
        /\ from + num <= Length(cht)
        /\ op' = [NoOp EXCEPT !.name = "DetectTrend", !.num = num, !.current = from]
        /\ status' = "ok"
        /\ out' = [NoOut EXCEPT !.trend = DetectTrend(SubSeq(cht.Candles, from + 1, from + num))]
    /\ cht' = AfterCall(cht, Lists(cht))
    /\ callee' = Lists(cht)
    /\ submitted' = <<>>
    /\ UNCHANGED <<input, prices, line, st, appends, session, pc>>

\* AddBearishPattern (dir = Bearish) or AddBullishPattern (dir = Bullish)
CallAddPattern ==
    /\ Running
    /\ \E i \in 1..Length(cht), dir \in {Bearish, Bullish} :
        \E pattern \in AddKinds(dir) :
            LET r == AddPattern(cht, dir, cht.Candles[i], pattern)
            IN  /\ op' = [NoOp EXCEPT !.name = "AddPattern", !.dir = dir,
                                      !.pattern = pattern, !.current = cht.Candles[i].ID]
                /\ status' = r.status
                /\ callee' = r.lists
                /\ cht' = AfterCall(cht, r.lists)
    /\ out' = NoOut
    /\ submitted' = <<>>
    /\ UNCHANGED <<input, prices, line, st, appends, session, pc>>

CallDetectPatterns ==
    /\ Running
    /\ LET r == DetectPatterns(cht)
       IN  /\ op' = [NoOp EXCEPT !.name = "DetectPatterns"]
           /\ status' = r.status
           /\ callee' = r.lists
           /\ submitted' = r.submitted
           /\ cht' = AfterCall(cht, r.lists)
    /\ out' = NoOut
    /\ UNCHANGED <<input, prices, line, st, appends, session, pc>>

\* The last call has returned (not panicked) and the caller goes on: the receiver
\* copy and the returned values are dropped, the caller's chart is kept.
Return ==
    /\ status \in {"ok", ErrLastCandle}
    /\ op' = NoOp
    /\ status' = "none"
    /\ out' = NoOut
    /\ callee' = Lists(cht)
    /\ submitted' = <<>>
    /\ UNCHANGED <<input, cht, prices, line, st, appends, session, pc>>

Next ==
    \/ Return
    \/ CallNextCandle
    \/ CallNextCandles
    \/ CallPreviousCandle
    \/ CallPreviousCandles
    \/ CallDetectTrend
    \/ CallAddPattern
    \/ CallDetectPatterns

Spec == Init /\ [][Next]_vars

----------------------------------------------------------------------------
(* Candle construction as a state machine: doOHLC is called on a price list. *)

PriceLists == UNION {[1..n -> 0..MaxPrice] : n \in 0..MaxPrices}

InitOHLC ==
    /\ prices \in PriceLists
    /\ line = NewLineChart(<<>>)
    /\ LedgerAtRest
    /\ SessionAtRest
    /\ input = <<>>
    /\ cht = NewCandleChart(input)
    /\ op = NoOp
    /\ status = "none"
    /\ out = NoOut
    /\ callee = Lists(cht)
    /\ submitted = <<>>

CallDoOHLC ==
    /\ Running
    /\ LET r == doOHLC(prices)
       IN  /\ op' = [NoOp EXCEPT !.name = "doOHLC"]
           /\ status' = r.status
           /\ out' = [NoOut EXCEPT !.candle = r.candle]
    /\ UNCHANGED <<input, cht, callee, submitted, prices, line, st, appends, session, pc>>

NextOHLC ==
    \/ Return
    \/ CallDoOHLC

SpecOHLC == InitOHLC /\ [][NextOHLC]_vars

----------------------------------------------------------------------------
(* The line chart as a state machine: a chart is built from a price list,  *)
(* then its DetectTrend is called.                                         *)

InitLine ==
    /\ line \in {NewLineChart(p) : p \in PriceLists}
    /\ input = <<>>
    /\ cht = NewCandleChart(input)
    /\ op = NoOp
    /\ status = "none"
    /\ out = NoOut
    /\ callee = Lists(cht)
    /\ submitted = <<>>
    /\ prices = <<>>
    /\ LedgerAtRest
    /\ SessionAtRest

\* chart.DetectTrend(): runs on a copy of the chart and returns nothing.
CallLineDetectTrend ==
    /\ Running
    /\ op' = [NoOp EXCEPT !.name = "LineChart.DetectTrend"]
    /\ status' = "ok"
    /\ line' = AfterLineCall(line, LineDetectTrend(line))
    /\ UNCHANGED <<input, cht, out, callee, submitted, prices, st, appends, session, pc>>

NextLine ==
    \/ Return
    \/ CallLineDetectTrend

SpecLine == InitLine /\ [][NextLine]_vars

----------------------------------------------------------------------------
(* The entry stack as a state machine: records are appended to a stack     *)
(* that starts empty.                                                      *)

InitLedger ==
    /\ LedgerAtRest
    /\ input = <<>>
    /\ cht = NewCandleChart(input)
    /\ op = NoOp
    /\ status = "none"
    /\ out = NoOut
    /\ callee = Lists(cht)
    /\ submitted = <<>>
    /\ prices = <<>>
    /\ line = NewLineChart(<<>>)
    /\ SessionAtRest

\* st.appendRecord(rec), rec being the entry with the next serial. The receiver is
\* a pointer: the stack itself changes.
CallAppendRecord ==
    /\ appends < MaxAppends
    /\ appends' = appends + 1
    /\ st' = appendRecord(st, appends + 1)
    /\ UNCHANGED <<input, cht, op, status, out, callee, submitted, prices, line,
                   session, pc>>

NextLedger == CallAppendRecord

SpecLedger == InitLedger /\ [][NextLedger]_vars

----------------------------------------------------------------------------
(* The session as a state machine: one goroutine runs Start, up to         *)
(* MaxStops goroutines call Stop, and the goroutines Start spawns run on   *)
(* their own.                                                              *)

InitSession ==
    /\ SessionAtRest
    /\ input = <<>>
    /\ cht = NewCandleChart(input)
    /\ op = NoOp
    /\ status = "none"
    /\ out = NoOut
    /\ callee = Lists(cht)
    /\ submitted = <<>>
    /\ prices = <<>>
    /\ line = NewLineChart(<<>>)
    /\ LedgerAtRest

\* The next step of s.Start(): set startTime; the four go statements in order;
\* <-s.done, which needs an open channel and a sender at its send (a receive from a
\* nil channel blocks forever); then the elapsed time and the report.
Start ==
    /\ \/ /\ pc.start = "idle"
          /\ session' = [session EXCEPT !.startTime = TRUE]
          /\ pc' = [pc EXCEPT !.start = "spawning"]
       \/ /\ pc.start = "spawning"
          /\ \E g \in 1..Len(Workers) :
               /\ pc.worker[g] = "unspawned"
               /\ \A h \in 1..(g - 1) : pc.worker[h] # "unspawned"
               /\ pc' = [pc EXCEPT !.worker[g] = "running",
                                   !.start = IF g = Len(Workers) THEN "waiting"
                                             ELSE "spawning"]
          /\ UNCHANGED session
       \/ /\ pc.start = "waiting"
          /\ session.done = "open"
          /\ \E i \in 1..MaxStops :
               /\ pc.stop[i] = "sending"
               /\ pc' = [pc EXCEPT !.start = "reporting", !.stop[i] = "returned"]
          /\ UNCHANGED session
       \/ /\ pc.start = "reporting"
          /\ session' = [session EXCEPT !.elapsed = TRUE]
          /\ pc' = [pc EXCEPT !.start = "returned"]
    /\ UNCHANGED <<input, cht, op, status, out, callee, submitted, prices, line,
                   st, appends>>

\* A goroutine calls s.Stop() and reaches s.done <- struct{}{}; the send completes
\* together with Start's receive (the channel being unbuffered).
Stop ==
    /\ \E i \in 1..MaxStops :
        /\ pc.stop[i] = "idle"
        /\ pc' = [pc EXCEPT !.stop[i] = "sending"]
    /\ UNCHANGED <<input, cht, op, status, out, callee, submitted, prices, line,
                   st, appends, session>>

\* A spawned goroutine other than Trade (an endless loop) returns.
WorkerEnds ==
    /\ \E g \in 1..Len(Workers) :
        /\ pc.worker[g] = "running"
        /\ Workers[g] # "Trade"
        /\ pc' = [pc EXCEPT !.worker[g] = "ended"]
    /\ UNCHANGED <<input, cht, op, status, out, callee, submitted, prices, line,
                   st, appends, session>>

NextSession ==
    \/ Start
    \/ Stop
    \/ WorkerEnds

\* The Go scheduler runs every goroutine that can take a step, so Start is not
\* starved; a goroutine blocked on a channel is not enabled.
SpecSession == InitSession /\ [][NextSession]_vars /\ WF_vars(Start)

----------------------------------------------------------------------------
(* The scan as a state machine: DetectPatterns is called on charts whose    *)
(* trailing window is drawn from a pool wide enough for every bearish rule. *)

BigBull == OHLC(2, 9, 1, 8, Bullish, 0)
BullDoji == OHLC(6, 7, 6, 7, Bullish, 0)
LowBull == OHLC(1, 4, 1, 3, Bullish, 0)
MidBear == OHLC(7, 8, 4, 5, Bearish, 0)
HighBear == OHLC(10, 10, 8, 8, Bearish, 0)
MidBull == OHLC(5, 9, 5, 9, Bullish, 0)

ScanPool ==
    {SmallBull, BigBull, BullDoji, LowBull, MidBull, BigBear, SmallBear, MidBear,
     HighBear, FlatDoji}

\* The candles older than the trailing window.
OldPool == {BigBear, SmallBull}

ScanBatches ==
    {old \o recent :
        old \in UNION {[1..n -> OldPool] : n \in 0..(MaxCandles - DefaultMaxPatternCandles)},
        recent \in [1..DefaultMaxPatternCandles -> ScanPool]}

InitScan ==
    /\ input \in ScanBatches
    /\ cht = NewCandleChart(input)
    /\ op = NoOp
    /\ status = "none"
    /\ out = NoOut
    /\ callee = Lists(cht)
    /\ submitted = <<>>
    /\ prices = <<>>
    /\ line = NewLineChart(<<>>)
    /\ LedgerAtRest
    /\ SessionAtRest

NextScan ==
    \/ Return
    \/ CallDetectPatterns

SpecScan == InitScan /\ [][NextScan]_vars

----------------------------------------------------------------------------
(* The scan on charts whose candles doOHLC built. *)

\* Candles built from an opening and a closing price.
BuiltPool == {doOHLC(<<o, c>>).candle : o, c \in 0..MaxPrice}

\* The candles the three oldest positions are drawn from: one rise, one fall.
BuiltOlder == {doOHLC(<<0, MaxPrice>>).candle, doOHLC(<<MaxPrice, 0>>).candle}

BuiltBatches ==
    {old \o recent :
        old \in [1..(DefaultMaxPatternCandles - 2) -> BuiltOlder],
        recent \in [1..2 -> BuiltPool]}

InitBuilt ==
    /\ input \in BuiltBatches
    /\ cht = NewCandleChart(input)
    /\ op = NoOp
    /\ status = "none"
    /\ out = NoOut
    /\ callee = Lists(cht)
    /\ submitted = <<>>
    /\ prices = <<>>
    /\ line = NewLineChart(<<>>)
    /\ LedgerAtRest
    /\ SessionAtRest

NextBuilt ==
    \/ Return
    \/ CallDetectPatterns

SpecBuilt == InitBuilt /\ [][NextBuilt]_vars

----------------------------------------------------------------------------
(* The scan on charts longer than the trailing window. *)

LongPool == {LowBull, HighBear, BigBear, SmallBull, FlatDoji}

LongBatches ==
    {old \o recent :
        old \in UNION {[1..n -> OldPool] : n \in 1..MaxOlder},
        recent \in [1..DefaultMaxPatternCandles -> LongPool]}

InitLong ==
    /\ input \in LongBatches
    /\ cht = NewCandleChart(input)
    /\ op = NoOp
    /\ status = "none"
    /\ out = NoOut
    /\ callee = Lists(cht)
    /\ submitted = <<>>
    /\ prices = <<>>
    /\ line = NewLineChart(<<>>)
    /\ LedgerAtRest
    /\ SessionAtRest

NextLong ==
    \/ Return
    \/ CallDetectPatterns

SpecLong == InitLong /\ [][NextLong]_vars

----------------------------------------------------------------------------
(* Chart construction and navigation: claims C1 - C6 *)

\* The call the state shows has returned or panicked.
Called(name) == op.name = name /\ status # "none"

\* C1: in every chart NewCandleChart returns, whatever IDs the batch carried, the
\* candle at position i has ID i, and the chart holds exactly the batch's candles in
\* the batch's order; this stays so after any sequence of navigation, DetectTrend,
\* Add...Pattern and DetectPatterns calls.
C1_IndexIsPosition ==
    /\ Length(cht) = Len(input)
    /\ \A i \in 0..(Length(cht) - 1) :
        /\ At(cht, i).ID = i
        /\ At(cht, i) = [input[i + 1] EXCEPT !.ID = i]

\* C1 witness: a scan has run on a five-candle chart built from a batch whose IDs
\* were not the positions.
C1_Witness ==
    /\ Called("DetectPatterns")
    /\ Length(cht) = 5
    /\ \A i \in 1..Len(input) : input[i].ID # i - 1

\* C2: previousCandles(num, c), num >= 1, c a candle of the chart: when num <= c.ID
\* it returns exactly num candles, the k-th (0-based) being the one at index
\* c.ID - 1 - k; when num > c.ID it fails with an error value, returns no candles
\* and does not panic.
C2_PreviousCandles ==
    Called("previousCandles") =>
        IF op.num <= op.current
        THEN /\ status = "ok"
             /\ Len(out.candles) = op.num
             /\ \A k \in 0..(op.num - 1) : out.candles[k + 1] = At(cht, op.current - 1 - k)
        ELSE /\ status \notin {"ok", "panic"}
             /\ out.candles = <<>>

\* C3: nextCandle(c) returns the candle at index c.ID + 1 for every candle of the
\* chart but the last, and fails with ErrLastCandle exactly when c is the last.
C3_NextCandle ==
    Called("nextCandle") =>
        IF op.current = Length(cht) - 1
        THEN status = ErrLastCandle
        ELSE status = "ok" /\ out.candle = At(cht, op.current + 1)

\* C4: previousCandle(c) returns the candle at index c.ID - 1 for every candle of
\* the chart with c.ID >= 1, and fails with ErrLastCandle exactly when c.ID = 0.
C4_PreviousCandle ==
    Called("previousCandle") =>
        IF op.current = 0
        THEN status = ErrLastCandle /\ out.candle = ZeroOHLC
        ELSE /\ status = "ok"
             /\ out.candle = cht.Candles[op.current]
             /\ out.candle.ID = op.current - 1

\* C4 witness: previousCandle has returned the predecessor of the last candle of a
\* chart of at least three candles.
C4_Witness ==
    /\ Called("previousCandle")
    /\ Length(cht) >= 3
    /\ op.current = Length(cht) - 1
    /\ status = "ok"

\* c is an interior position of the chart.
Interior(i) == 0 < i /\ i < Length(cht) - 1

\* C5: for every interior candle c, nextCandle(previousCandle(c)) succeeds and is c,
\* and previousCandle(nextCandle(c)) succeeds and is c.
C5_RoundTrip ==
    /\ (Called("previousCandle") /\ Interior(op.current)) =>
            /\ status = "ok"
            /\ nextCandle(cht, out.candle).status = "ok"
            /\ nextCandle(cht, out.candle).candle = At(cht, op.current)
    /\ (Called("nextCandle") /\ Interior(op.current)) =>
            /\ status = "ok"
            /\ previousCandle(cht, out.candle).status = "ok"
            /\ previousCandle(cht, out.candle).candle = At(cht, op.current)

\* C6: nextCandles(num, c), num >= 1, c a candle of the chart: when at least num
\* candles follow c it returns exactly num candles, the k-th (0-based) being the one
\* at index c.ID + 1 + k; when fewer follow it fails with an error and no candles.
C6_NextCandles ==
    Called("nextCandles") =>
        IF op.num <= Length(cht) - 1 - op.current
        THEN /\ status = "ok"
             /\ Len(out.candles) = op.num
             /\ \A k \in 0..(op.num - 1) : out.candles[k + 1] = At(cht, op.current + 1 + k)
        ELSE /\ status \notin {"ok", "panic"}
             /\ out.candles = <<>>

----------------------------------------------------------------------------
(* Pattern recording and the scan's failure modes: claims C7 - C10 *)

\* C7: DetectPatterns on a chart of fewer candles than MaxPatternCandles (an empty
\* chart included) ends with InsufficientWindowError as a reported error, not a
\* panic, and both pattern lists stay empty.
C7_InsufficientWindow ==
    (Called("DetectPatterns") /\ Length(cht) < cht.MaxPatternCandles) =>
        /\ status = "InsufficientWindowError"
        /\ cht.BearishPatterns = <<>>
        /\ cht.BullishPatterns = <<>>

\* The record an Add...Pattern call is to append for the anchor at position id.
ExpectedRecord(c, id, pattern) ==
    [Pattern |-> pattern,
     PreceedingTrend |-> DetectTrend(<<At(c, id - 1), At(c, id - 2), At(c, id - 3)>>)]

\* C8: an Add...Pattern call with an anchor of ID >= 3 appends exactly one record
\* {pattern, trend of the three candles before the anchor} at the end of the list of
\* its direction; after it the caller's chart shows that list one record longer and
\* the other list as it was.
C8_AddPatternAppends ==
    [][(status = "none" /\ op'.name = "AddPattern" /\ op'.current >= 3) =>
          LET rec == ExpectedRecord(cht, op'.current, op'.pattern)
          IN  IF op'.dir = Bearish
              THEN /\ cht'.BearishPatterns = Append(cht.BearishPatterns, rec)
                   /\ cht'.BullishPatterns = cht.BullishPatterns
              ELSE /\ cht'.BullishPatterns = Append(cht.BullishPatterns, rec)
                   /\ cht'.BearishPatterns = cht.BearishPatterns]_vars

\* C9: an Add...Pattern call with an anchor of ID 0, 1 or 2 drops the match
\* silently: it ends normally, without error or panic, and no list changes.
C9_SilentDrop ==
    (Called("AddPattern") /\ op.current \in 0..2) =>
        /\ status = "ok"
        /\ callee = Lists(cht)
        /\ cht.BearishPatterns = <<>>
        /\ cht.BullishPatterns = <<>>

\* C10: on every chart of at least MaxPatternCandles candles, whatever the trends
\* and prices, DetectPatterns completes: a rule or recording step whose look-back is
\* unavailable is skipped, never aborting the scan.
C10_ScanCompletes ==
    (Called("DetectPatterns") /\ Length(cht) >= cht.MaxPatternCandles) => status = "ok"

----------------------------------------------------------------------------
(* Repeated scans, the frame of every call, and trend scoring: C11 - C13 *)

\* The records a scan's log shows as appended to the list of direction dir, in order.
RECURSIVE RecordsOf(_, _)
RecordsOf(log, dir) ==
    IF Len(log) = 0 THEN <<>>
    ELSE LET s == Head(log)
         IN  (IF s.dir = dir /\ s.result = "recorded"
              THEN <<[Pattern |-> s.pattern, PreceedingTrend |-> s.trend]>>
              ELSE <<>>) \o RecordsOf(Tail(log), dir)

\* s ends with t
EndsWith(s, t) ==
    Len(t) <= Len(s) /\ SubSeq(s, Len(s) - Len(t) + 1, Len(s)) = t

\* The caller's chart after one more DetectPatterns call on it.
ScannedAgain(c) == AfterCall(c, DetectPatterns(c).lists)

\* C11: two consecutive DetectPatterns calls on an unchanged chart append the same
\* records twice: when a call matches a rule whose anchor has 3 predecessors, each
\* list of the chart holds that call's records, and after a second call it is the
\* list after the first call followed by the same records again.
C11_DoubleAppend ==
    (Called("DetectPatterns") /\ status = "ok"
        /\ \E i \in 1..Len(submitted) : submitted[i].result = "recorded") =>
        /\ DetectPatterns(cht).status = "ok"
        /\ EndsWith(cht.BearishPatterns, RecordsOf(submitted, Bearish))
        /\ EndsWith(cht.BullishPatterns, RecordsOf(submitted, Bullish))
        /\ ScannedAgain(cht).BearishPatterns
             = cht.BearishPatterns \o RecordsOf(submitted, Bearish)
        /\ ScannedAgain(cht).BullishPatterns
             = cht.BullishPatterns \o RecordsOf(submitted, Bullish)

\* s is a prefix of t
IsPrefix(s, t) == Len(s) <= Len(t) /\ SubSeq(t, 1, Len(s)) = s

\* C12: no call changes the chart's candles (their number or any field of any of
\* them) or MaxPatternCandles, and each pattern list only grows: the list before a
\* call is a prefix of the list after it.
C12_Frame ==
    [][/\ cht'.Candles = cht.Candles
       /\ cht'.MaxPatternCandles = cht.MaxPatternCandles
       /\ IsPrefix(cht.BearishPatterns, cht'.BearishPatterns)
       /\ IsPrefix(cht.BullishPatterns, cht'.BullishPatterns)]_vars

\* C12 witness: a scan has completed in which a match was recorded.
C12_Witness ==
    /\ Called("DetectPatterns")
    /\ status = "ok"
    /\ \E i \in 1..Len(submitted) : submitted[i].result = "recorded"

\* How many candles of s have trend t.
CountOf(s, t) == Cardinality({i \in 1..Len(s) : s[i].Trend = t})

\* The candles the last DetectTrend call was given.
Scored == SubSeq(cht.Candles, op.current + 1, op.current + op.num)

\* C13: DetectTrend returns Bullish exactly when more of its candles are Bullish than
\* Bearish, Bearish exactly when fewer are, and Indifferent otherwise (an empty
\* input and equal counts included); candles of any other trend count for neither.
C13_DetectTrend ==
    Called("DetectTrend") =>
        /\ out.trend \in {Bullish, Bearish, Indifferent}
        /\ out.trend = Bullish <=> CountOf(Scored, Bullish) > CountOf(Scored, Bearish)
        /\ out.trend = Bearish <=> CountOf(Scored, Bullish) < CountOf(Scored, Bearish)
        /\ out.trend = Indifferent <=> CountOf(Scored, Bullish) = CountOf(Scored, Bearish)

\* C13 witness: three candles, one Bullish, one Bearish and one of neither trend,
\* have been scored.
C13_Witness ==
    /\ Called("DetectTrend")
    /\ op.num = 3
    /\ CountOf(Scored, Bullish) = 1
    /\ CountOf(Scored, Bearish) = 1
    /\ out.trend = Indifferent

----------------------------------------------------------------------------
(* Candle construction: C14, C17 (checked under SpecOHLC) *)

\* C14: for a non-empty price list the candle doOHLC builds has Open = the first
\* price, Close = the last, High >= every price (so >= Open and Close), Low <= every
\* price (so <= Open and Close), and High and Low are each one of the prices.
C14_HighLow ==
    (Called("doOHLC") /\ Len(prices) > 0) =>
        /\ status = "ok"
        /\ out.candle.Open = prices[1]
        /\ out.candle.Close = prices[Len(prices)]
        /\ \A i \in 1..Len(prices) :
              out.candle.High >= prices[i] /\ out.candle.Low <= prices[i]
        /\ out.candle.High >= out.candle.Open /\ out.candle.High >= out.candle.Close
        /\ out.candle.Low <= out.candle.Open /\ out.candle.Low <= out.candle.Close
        /\ \E i \in 1..Len(prices) : out.candle.High = prices[i]
        /\ \E i \in 1..Len(prices) : out.candle.Low = prices[i]

\* C14 witness: a candle has been built from three prices none of which is 0, the
\* middle one the lowest.
C14_Witness ==
    /\ Called("doOHLC")
    /\ status = "ok"
    /\ Len(prices) = 3
    /\ prices[2] > 0
    /\ prices[2] < prices[1]
    /\ prices[2] < prices[3]

C15_EmptyInput ==
    (Called("doOHLC") /\ Len(prices) = 0) =>
        /\ status # "panic"
        /\ status = "EmptyInputError"

\* C16: doOHLC called with a non-empty price list whose first price is 0 reports
\* DivisionByZeroError instead of computing percentChange and returning a candle.
C16_ZeroOpenGuarded ==
    (Called("doOHLC") /\ Len(prices) > 0 /\ prices[1] = 0) =>
        /\ status = "DivisionByZeroError"
        /\ out.candle.percentChange \notin {"+Inf", "-Inf", "NaN"}

----------------------------------------------------------------------------
(* The bearish rules of the scan: C18 - C20 (checked under SpecScan) *)

\* The candle k places before the last one of the chart (k = 0: the last candle).
Back(k) == cht.Candles[Length(cht) - k]

\* A scan of a chart long enough for the window has been made, and the last candle
\* is Bearish.
BearishScan ==
    /\ Called("DetectPatterns")
    /\ Length(cht) >= cht.MaxPatternCandles
    /\ Back(0).Trend = Bearish

SubmittedKind(pattern) == \E i \in 1..Len(submitted) : submitted[i].pattern = pattern

\* The trend score of the three candles before the candle with index id.
TrendBefore(id) ==
    LET three == SubSeq(cht.Candles, id - 2, id)
    IN  IF CountOf(three, Bullish) > CountOf(three, Bearish) THEN Bullish
        ELSE IF CountOf(three, Bearish) > CountOf(three, Bullish) THEN Bearish
        ELSE Indifferent

\* C18: in a scan whose last candle L is Bearish, BearishEngulfing is submitted iff
\* the candle P before L is Bullish and L.High > P.High and L.Low < P.Low; it is
\* anchored at P and recorded (in the scan's copy) with the trend score of the three
\* candles before P.
C18_BearishEngulfing ==
    BearishScan =>
        /\ SubmittedKind("BearishEngulfingPattern") <=>
              /\ Back(1).Trend = Bullish
              /\ Back(0).High > Back(1).High
              /\ Back(0).Low < Back(1).Low
        /\ \A i \in 1..Len(submitted) :
              submitted[i].pattern = "BearishEngulfingPattern" =>
                  /\ submitted[i].dir = Bearish
                  /\ submitted[i].anchor = Length(cht) - 2
                  /\ submitted[i].result = "recorded"
                  /\ submitted[i].trend = TrendBefore(Length(cht) - 2)

\* C18 witness: a scan has submitted BearishEngulfing and the three candles before P
\* score Bearish.
C18_Witness ==
    /\ BearishScan
    /\ SubmittedKind("BearishEngulfingPattern")
    /\ TrendBefore(Length(cht) - 2) = Bearish

FloorEqual(candle) == (candle.Open \div Scale) = (candle.Close \div Scale)

C20_FallingThree ==
    (BearishScan /\ Length(cht) >= 5) =>
        /\ SubmittedKind("BearishFallingThree") <=>
              /\ \A k \in 1..3 : Back(k).Trend = Bullish
              /\ Back(4).Trend = Bearish
              /\ \A k \in 1..3 : Back(4).High > Back(k).High
        /\ \A i \in 1..Len(submitted) :
              submitted[i].pattern = "BearishFallingThree" =>
                  submitted[i].anchor = Length(cht) - 5

----------------------------------------------------------------------------
(* The bullish rules and the doji rules of the scan: C21 - C24, C29        *)
(* (checked under SpecScan)                                                *)

\* A scan of a chart long enough for the window has been made, and the last candle
\* is Bullish.
BullishScan ==
    /\ Called("DetectPatterns")
    /\ Length(cht) >= cht.MaxPatternCandles
    /\ Back(0).Trend = Bullish

BullishKinds ==
    {"BullishEngulfingPattern", "BullishHarami", "BullishKeyReversal",
     "BullishMorningStar", "MorningDojiStar", "BullishRisingThree",
     "BullishRisingTwo", "BullishGenericPattern"}

\* C21: in a scan whose last candle L is Bullish and not a doji, every submission is
\* of a bullish kind and goes to the bullish list; nothing goes to the bearish list.
C21_BullishOnly ==
    (BullishScan /\ ~FloorEqual(Back(0))) =>
        \A i \in 1..Len(submitted) :
            /\ submitted[i].dir = Bullish
            /\ submitted[i].pattern \in BullishKinds

\* C22: in a scan whose last candle L is Bullish and has at least 4 predecessors,
\* BullishRisingThree is submitted iff the three candles before L are all Bearish,
\* the candle 4 places before L is Bullish and its Low is below the Low of each of
\* the three; the submission is anchored at that candle.
C22_RisingThree ==
    (BullishScan /\ Length(cht) >= 5) =>
        /\ SubmittedKind("BullishRisingThree") <=>
              /\ \A k \in 1..3 : Back(k).Trend = Bearish
              /\ Back(4).Trend = Bullish
              /\ \A k \in 1..3 : Back(4).Low < Back(k).Low
        /\ \A i \in 1..Len(submitted) :
              submitted[i].pattern = "BullishRisingThree" =>
                  submitted[i].anchor = Length(cht) - 5

\* A scan of a chart long enough for the window has been made, and the last candle
\* is a doji.
DojiScan ==
    /\ Called("DetectPatterns")
    /\ Length(cht) >= cht.MaxPatternCandles
    /\ FloorEqual(Back(0))

\* L.High < P.High and L.Low > P.Low
Contained == Back(0).High < Back(1).High /\ Back(0).Low > Back(1).Low

\* C23: in a scan whose last candle L is a doji with a predecessor P,
\* BullishHaramiCross is submitted iff P contains L and P is Bearish,
\* BearishHaramiCross iff P contains L and P is Bullish, whatever L's own trend;
\* never both, and neither when P does not contain L.
C23_HaramiCross ==
    DojiScan =>
        /\ SubmittedKind("BullishHaramiCross") <=> (Contained /\ Back(1).Trend = Bearish)
        /\ SubmittedKind("BearishHaramiCross") <=> (Contained /\ Back(1).Trend = Bullish)
        /\ ~(SubmittedKind("BullishHaramiCross") /\ SubmittedKind("BearishHaramiCross"))
        /\ ~Contained =>
              ~SubmittedKind("BullishHaramiCross") /\ ~SubmittedKind("BearishHaramiCross")

\* C24: in every scan that submits BearishGenericPattern, no other pattern kind is
\* submitted.
C24_GenericIsFallback ==
    (Called("DetectPatterns") /\ SubmittedKind("BearishGenericPattern")) =>
        \A i \in 1..Len(submitted) : submitted[i].pattern = "BearishGenericPattern"

\* C29: no scan submits both BearishFallingThree and BearishFallingTwo, and no scan
\* submits either of them together with BearishGenericPattern.
C29_ContinuationsExclusive ==
    Called("DetectPatterns") =>
        /\ ~(SubmittedKind("BearishFallingThree") /\ SubmittedKind("BearishFallingTwo"))
        /\ ~(SubmittedKind("BearishFallingThree") /\ SubmittedKind("BearishGenericPattern"))
        /\ ~(SubmittedKind("BearishFallingTwo") /\ SubmittedKind("BearishGenericPattern"))

----------------------------------------------------------------------------
(* The trailing window: C25 (checked under SpecLong) *)

\* C25: every candle a detection call reads while computing a record's
\* PreceedingTrend has index >= len(candles) - patternWindow, on every chart at
\* least as long as the window.
C25_ReadsInsideWindow ==
    (Called("DetectPatterns") /\ Length(cht) >= cht.MaxPatternCandles) =>
        \A i \in 1..Len(submitted) :
            \A k \in PrecedingReads(submitted[i].anchor) :
                k >= Length(cht) - cht.MaxPatternCandles

----------------------------------------------------------------------------
(* The line chart: C26 (checked under SpecLine) *)

\* The consecutive pairs of p that rise (d = 1) or fall (d = -1).
Pairs(p, d) ==
    {x \in 1..(Len(p) - 1) : IF d = 1 THEN p[x] < p[x + 1] ELSE p[x] > p[x + 1]}

\* C26: after LineChart.DetectTrend the chart's Trend is Bullish when more
\* consecutive pairs of its prices rise than fall, Bearish when more fall than rise,
\* and Indifferent otherwise (lists of length 0 or 1 included).
C26_SeriesTrend ==
    Called("LineChart.DetectTrend") =>
        LET score == Cardinality(Pairs(line.Prices, 1)) - Cardinality(Pairs(line.Prices, -1))
        IN  line.Trend = IF score > 0 THEN Bullish
                         ELSE IF score < 0 THEN Bearish
                         ELSE Indifferent

----------------------------------------------------------------------------
(* The entry stack: C27 (checked under SpecLedger) *)

\* C27: starting from an empty stack, after any number of appendRecord calls the
\* stack holds at most maxRecordsToSave entries, and they are exactly the most
\* recent min(number of appends, maxRecordsToSave) entries in insertion order; so
\* an append to a full stack drops the oldest entry and no other.
C27_BoundedFIFO ==
    LET held == Len(st.records)
    IN  /\ held <= maxRecordsToSave
        /\ held = IF appends < maxRecordsToSave THEN appends ELSE maxRecordsToSave
        /\ \A i \in 1..held : st.records[i] = appends - held + i

\* C27 witness: five appends have been made to a full stack.
C27_Witness ==
    /\ appends = maxRecordsToSave + 5
    /\ Len(st.records) = maxRecordsToSave
    /\ st.records[1] = 6

----------------------------------------------------------------------------
(* Constructed candles in the scan: C28 (checked under SpecBuilt) *)

HaramiCrossSubmitted ==
    SubmittedKind("BullishHaramiCross") \/ SubmittedKind("BearishHaramiCross")

----------------------------------------------------------------------------
(* The shutdown handshake: C30 (checked under SpecSession) *)

\* C30: once Start is blocked waiting on the done channel and Stop has been called,
\* eventually Stop has returned and Start has passed its wait, recorded the elapsed
\* time and returned.
C30_Handshake ==
    (pc.start = "waiting" /\ \E i \in 1..MaxStops : pc.stop[i] = "sending")
        ~> (/\ pc.start = "returned"
            /\ session.elapsed
            /\ \E i \in 1..MaxStops : pc.stop[i] = "returned")

====
